---- MODULE Spec2Model ----
(***************************************************************************)
(* The XCVM of chainer-compiler: the register file (XCVMState), the        *)
(* Dispatcher loop and the op kernels of runtime/xcvm_ops.cc.              *)
(*                                                                         *)
(* Spec          the virtual machine running a program (In, Out, Free,    *)
(*               JmpTrue, JmpFalse)                                        *)
(* SpecReshape   one call of ReshapeOp::RunImpl                            *)
(* SpecPad       one call of PadOp::RunImpl                                *)
(* SpecSplit     one call of SplitOp::RunImpl followed by ConcatOp         *)
(* SpecGemm      one call of GemmOp::RunImpl                               *)
(* SpecRelu      one call of ReluGradOp::RunImpl                           *)
(* SpecSqueeze   one call of SqueezeOp::RunImpl                            *)
(* SpecWarn      a process calling Floor, Ceil, GreaterEqual, Max and LSTM *)
(***************************************************************************)
EXTENDS Integers, Sequences, FiniteSets, TLC

VARIABLES
    prog,     \* the program: per index <<>> (not fetched yet) or <<instruction>>
    pc,       \* XCVMState::pc_
    regs,     \* XCVMState::variables_: per variable id <<>> (absent) or <<array>>
    inputs,   \* XCVMState::inputs_: name -> array
    outputs,  \* XCVMState::outputs_: name -> <<>> or <<array>>
    status,   \* "running", "done" (normal completion) or "aborted" (fatal error)
    phase,    \* position in the Dispatcher loop: "fetch" or "advance"
    last,     \* observation: <<>> or <<the instruction step executed last>>
    prev,     \* observation: the value of last before the last step
    passed,   \* observation: per output name, the value the last Out passed
    call,     \* a kernel call outside the machine: <<>> or <<its arguments>>
              \* (SpecWarn: the calls of the process so far, in order)
    ret,      \* <<>> or <<the result of that call>>
              \* (SpecWarn: the results of these calls)
    warned,   \* the WARN_ONCE call sites whose static flag is set
    log       \* the warnings written to the log of the process, in order

vars == <<prog, pc, regs, inputs, outputs, status, phase, last, prev, passed, call, ret,
         warned, log>>

vmvars == <<prog, pc, regs, inputs, outputs, status, phase, last, prev, passed>>

procvars == <<warned, log>>

(***************************************************************************)
(* Bounds of the model.                                                    *)
(***************************************************************************)
\* number of instructions of the program
ProgLen == 4
\* number of variable ids (registers)
NumVars == 2

InNames == {"p", "q"}
OutNames == {"y"}

(***************************************************************************)
(* Arrays: a shape and the elements in row-major order.                    *)
(***************************************************************************)
RECURSIVE Product(_)
Product(s) == IF s = <<>> THEN 1 ELSE Head(s) * Product(Tail(s))

\* chainerx::Array::GetTotalSize
GetTotalSize(a) == Product(a.shape)

ScalarArray(v) == [shape |-> <<>>, data |-> <<v>>]

\* the arrays bound to the program's inputs before the run: p is a true and
\* q a false 0-d condition
BoundInputs == [n \in InNames |-> IF n = "p" THEN ScalarArray(1) ELSE ScalarArray(0)]

(***************************************************************************)
(* XCVMState, the register file.  A state st is a record of pc, regs,      *)
(* inputs, outputs and status; a failed CHECK aborts the run.              *)
(***************************************************************************)
St == [pc |-> pc, regs |-> regs, inputs |-> inputs, outputs |-> outputs,
       status |-> status]

Abort(st) == [st EXCEPT !.status = "aborted"]

IsLive(st, id) == st.regs[id] # <<>>

\* XCVMState::Input
Input(st, name) == st.inputs[name]

\* XCVMState::Output: overwrites the binding of name
Output(st, name, v) == [st EXCEPT !.outputs[name] = <<v>>]

\* XCVMState::FreeVar: a fatal error unless id holds a value
FreeVar(st, id) ==
    IF IsLive(st, id) THEN [st EXCEPT !.regs[id] = <<>>] ELSE Abort(st)

\* XCVMState::set_pc
set_pc(st, n) == [st EXCEPT !.pc = n]

\* XCVMState::SetVar: stores a produced output.  The slot is meant to be
\* fresh; storing into a live slot is either a checked error or an
\* overwrite, so both outcomes are kept.
SetVar(st, id, v) ==
    IF IsLive(st, id)
    THEN {Abort(st), [st EXCEPT !.regs[id] = <<v>>]}
    ELSE {[st EXCEPT !.regs[id] = <<v>>]}

(***************************************************************************)
(* The kernels of xcvm_ops.cc that act on the register file.               *)
(***************************************************************************)
\* chainerx::AsScalar is defined on arrays of exactly one element
HasScalar(a) == GetTotalSize(a) = 1

\* static_cast<bool>(chainerx::AsScalar(cond))
AsBool(a) == a.data[1] # 0

InOp_RunImpl(st, name) == Input(st, name)

\* variant: an Out that keeps the first binding of a name
OutOp_KeepsFirst(st, name, v) ==
    IF st.outputs[name] # <<>> THEN st ELSE Output(st, name, v)

OutOp_RunImpl(st, name, v) == Output(st, name, v)

\* variant: a Free that ignores an id that holds no value
FreeOp_Unchecked(st, v) == IF IsLive(st, v) THEN FreeVar(st, v) ELSE st

FreeOp_RunImpl(st, v) == FreeVar(st, v)

\* variant: a JmpTrue that sets the target itself
JmpTrueOp_NoCompensation(st, target, cond) ==
    IF ~HasScalar(cond) THEN Abort(st)
    ELSE IF AsBool(cond) THEN set_pc(st, target)
    ELSE st

JmpTrueOp_RunImpl(st, target, cond) ==
    IF ~HasScalar(cond) THEN Abort(st)
    ELSE IF AsBool(cond) THEN set_pc(st, target - 1)
    ELSE st

\* variant: a JmpFalse that compensates twice
JmpFalseOp_TwoBack(st, target, cond) ==
    IF ~HasScalar(cond) THEN Abort(st)
    ELSE IF ~AsBool(cond) THEN set_pc(st, target - 2)
    ELSE st

\* variant: a JmpFalse that jumps on a true condition
JmpFalseOp_NotNegated(st, target, cond) ==
    IF ~HasScalar(cond) THEN Abort(st)
    ELSE IF AsBool(cond) THEN set_pc(st, target - 1)
    ELSE st

JmpFalseOp_RunImpl(st, target, cond) ==
    IF ~HasScalar(cond) THEN Abort(st)
    ELSE IF ~AsBool(cond) THEN set_pc(st, target - 1)
    ELSE st

(***************************************************************************)
(* Instructions and the Dispatcher.                                        *)
(***************************************************************************)
VarIds == 0 .. (NumVars - 1)
Targets == 0 .. (ProgLen - 1)

Instr(op, name, v, target) == [op |-> op, name |-> name, v |-> v, target |-> target]

Instrs ==
    {Instr("In", n, v, 0) : n \in InNames, v \in VarIds}
    \cup {Instr("Out", n, v, 0) : n \in OutNames, v \in VarIds}
    \cup {Instr("Free", "", v, 0) : v \in VarIds}
    \cup {Instr("JmpTrue", "", v, t) : v \in VarIds, t \in Targets}
    \cup {Instr("JmpFalse", "", v, t) : v \in VarIds, t \in Targets}

\* the instructions that read variable v as their input
ReadsVar(ins) == ins.op \in {"Out", "JmpTrue", "JmpFalse"}

\* One instruction: gather the input (a fatal error when it is absent), run
\* the kernel, store the produced output.  The set of possible results.
Execute(st, ins) ==
    IF ReadsVar(ins) /\ ~IsLive(st, ins.v) THEN {Abort(st)}
    ELSE CASE ins.op = "In" -> SetVar(st, ins.v, InOp_RunImpl(st, ins.name))
           [] ins.op = "Out" -> {OutOp_RunImpl(st, ins.name, st.regs[ins.v][1])}
           [] ins.op = "Free" -> {FreeOp_RunImpl(st, ins.v)}
           [] ins.op = "JmpTrue" -> {JmpTrueOp_RunImpl(st, ins.target, st.regs[ins.v][1])}
           [] ins.op = "JmpFalse" -> {JmpFalseOp_RunImpl(st, ins.target, st.regs[ins.v][1])}

NoCall == call = <<>> /\ ret = <<>>

\* a process that has emitted no warning yet
FreshProcess == warned = {} /\ log = <<>>

Init ==
    /\ prog = [i \in Targets |-> <<>>]
    /\ pc = 0
    /\ regs = [v \in VarIds |-> <<>>]
    /\ inputs = BoundInputs
    /\ outputs = [n \in OutNames |-> <<>>]
    /\ status = "running"
    /\ phase = "fetch"
    /\ last = <<>>
    /\ prev = <<>>
    /\ passed = [n \in OutNames |-> <<>>]
    /\ NoCall
    /\ FreshProcess

\* The Dispatcher fetches Instructions[pc] and runs it.  The program is an
\* input of the run: an instruction is drawn when it is first fetched and
\* stays what it is from then on.  last records the step: the index, the
\* instruction, what slot v held before it, and whether it succeeded.
Run ==
    /\ status = "running"
    /\ phase = "fetch"
    /\ \E ins \in Instrs :
         /\ prog[pc] \in {<<>>, <<ins>>}
         /\ prog' = [prog EXCEPT ![pc] = <<ins>>]
         /\ \E st \in Execute(St, ins) :
              /\ pc' = st.pc
              /\ regs' = st.regs
              /\ inputs' = st.inputs
              /\ outputs' = st.outputs
              /\ status' = st.status
              /\ phase' = IF st.status = "running" THEN "advance" ELSE "fetch"
              /\ last' = <<[idx |-> pc, ins |-> ins, slot |-> regs[ins.v],
                            ok |-> st.status = "running"]>>
         /\ passed' = IF ins.op = "Out" /\ regs[ins.v] # <<>>
                       THEN [passed EXCEPT ![ins.name] = regs[ins.v]]
                       ELSE passed
    /\ prev' = last
    /\ UNCHANGED <<call, ret, procvars>>

\* The Dispatcher's increment after the kernel, and the loop test: the run
\* completes when pc passes the last instruction.
Advance ==
    /\ status = "running"
    /\ phase = "advance"
    /\ pc' = pc + 1
    /\ phase' = "fetch"
    /\ status' = IF pc + 1 >= ProgLen THEN "done" ELSE "running"
    /\ UNCHANGED <<prog, regs, inputs, outputs, last, prev, passed, call, ret, procvars>>

Next == Run \/ Advance

Spec == Init /\ [][Next]_vars

(***************************************************************************)
(* Kernel calls outside the machine.  The machine is off in these          *)
(* specifications; call holds the arguments and ret receives the result.   *)
(***************************************************************************)
MachineOff ==
    /\ prog = [i \in Targets |-> <<>>]
    /\ pc = 0
    /\ regs = [v \in VarIds |-> <<>>]
    /\ inputs = BoundInputs
    /\ outputs = [n \in OutNames |-> <<>>]
    /\ status = "off"
    /\ phase = "fetch"
    /\ last = <<>>
    /\ prev = <<>>
    /\ passed = [n \in OutNames |-> <<>>]

\* all sequences over S of a length in lens
SeqsOf(S, lens) == UNION {[1 .. n -> S] : n \in lens}

(***************************************************************************)
(* Reshape.                                                                *)
(***************************************************************************)
\* largest dimension of an array given to Reshape, and of its target shape
MaxReshapeDim == 3

ReshapeDataShapes == SeqsOf(1 .. MaxReshapeDim, {1, 2})
ReshapeTargets == SeqsOf(-1 .. MaxReshapeDim, {1, 2, 3})

\* What chainerx::Reshape does with a shape that still holds a negative
\* entry is the array engine's business: "exact" is an engine that compares
\* the products of the two shapes, "infer" one that solves a single -1
\* itself and rejects more than one.
EngineModes == {"exact", "infer"}

NegIdx(s) == {i \in DOMAIN s : s[i] < 0}

\* the product of the entries of s that are not negative
RECURSIVE NonNegProduct(_)
NonNegProduct(s) ==
    IF s = <<>> THEN 1
    ELSE (IF Head(s) < 0 THEN 1 ELSE Head(s)) * NonNegProduct(Tail(s))

EngineFail == [ok |-> FALSE, shape |-> <<>>]

chainerx_Reshape(dshape, s, mode) ==
    IF mode = "exact" \/ NegIdx(s) = {}
    THEN IF Product(s) = Product(dshape) THEN [ok |-> TRUE, shape |-> s] ELSE EngineFail
    ELSE IF Cardinality(NegIdx(s)) > 1 THEN EngineFail
    ELSE LET rest == NonNegProduct(s)
             total == Product(dshape)
         IN  IF rest = 0 \/ total % rest # 0 THEN EngineFail
             ELSE [ok |-> TRUE,
                   shape |-> [i \in DOMAIN s |-> IF s[i] < 0 THEN total \div rest ELSE s[i]]]

\* to_minus_one_index after the loop: the last negative entry, -1 if none
\* (0-based, as in the source)
ToMinusOneIndex(s) ==
    IF NegIdx(s) = {} THEN -1
    ELSE (CHOOSE i \in NegIdx(s) : \A j \in NegIdx(s) : j <= i) - 1

\* The result: checked says that every CHECK of RunImpl passed, passed is
\* the shape handed to chainerx::Reshape, ok and shape are the outcome.
ReshapeFatal == [checked |-> FALSE, passed |-> <<>>, ok |-> FALSE, shape |-> <<>>]

ReshapeCall(dshape, s, mode) ==
    LET r == chainerx_Reshape(dshape, s, mode)
    IN  [checked |-> TRUE, passed |-> s, ok |-> r.ok, shape |-> r.shape]

ReshapeOp_RunImpl(dshape, s, mode) ==
    LET from_total_size == Product(dshape)
        to_total_size == NonNegProduct(s)
        to_minus_one_index == ToMinusOneIndex(s)
    IN  IF \E i \in DOMAIN s : s[i] = 0 THEN ReshapeFatal
        ELSE IF from_total_size # to_total_size
        THEN IF ~(from_total_size > to_total_size) THEN ReshapeFatal
             ELSE IF from_total_size % to_total_size # 0 THEN ReshapeFatal
             ELSE IF ~(0 <= to_minus_one_index) THEN ReshapeFatal
             ELSE ReshapeCall(dshape,
                              [s EXCEPT ![to_minus_one_index + 1] =
                                            from_total_size \div to_total_size],
                              mode)
        ELSE ReshapeCall(dshape, s, mode)

InitReshape ==
    /\ MachineOff /\ FreshProcess
    /\ \E d \in ReshapeDataShapes, s \in ReshapeTargets, m \in EngineModes :
         call = <<[op |-> "Reshape", dshape |-> d, s |-> s, mode |-> m]>>
    /\ ret = <<>>

RunReshape ==
    /\ call # <<>> /\ call[1].op = "Reshape" /\ ret = <<>>
    /\ ret' = <<ReshapeOp_RunImpl(call[1].dshape, call[1].s, call[1].mode)>>
    /\ UNCHANGED <<vmvars, procvars, call>>

SpecReshape == InitReshape /\ [][RunReshape]_vars

(***************************************************************************)
(* Elements of arrays.  An index is a sequence of 0-based positions, one   *)
(* per axis; the elements are stored in row-major order.                   *)
(***************************************************************************)
Max(a, b) == IF a >= b THEN a ELSE b
Min(a, b) == IF a <= b THEN a ELSE b

\* the row-major offset of index idx in an array of this shape
RECURSIVE Ravel(_, _)
Ravel(shape, idx) ==
    IF shape = <<>> THEN 0
    ELSE Head(idx) * Product(Tail(shape)) + Ravel(Tail(shape), Tail(idx))

\* the index at row-major offset k
RECURSIVE Unravel(_, _)
Unravel(shape, k) ==
    IF shape = <<>> THEN <<>>
    ELSE <<k \div Product(Tail(shape))>> \o Unravel(Tail(shape), k % Product(Tail(shape)))

Indices(shape) == {Unravel(shape, k) : k \in 0 .. (Product(shape) - 1)}

ElemAt(a, idx) == a.data[Ravel(a.shape, idx) + 1]

\* the array of this shape whose element at idx is F(idx)
MakeArray(shape, F(_)) ==
    [shape |-> shape, data |-> [k \in 1 .. Product(shape) |-> F(Unravel(shape, k - 1))]]

\* the array of this shape whose elements are first, first + 1, ... in
\* row-major order: all distinct, so that a moved element shows
Iota(shape, first) ==
    [shape |-> shape, data |-> [k \in 1 .. Product(shape) |-> first + k - 1]]

\* chainerx::Full
Full(shape, value) == MakeArray(shape, LAMBDA idx : value)

\* chainerx::Slice(start, stop) applied to an axis of size dim: the first
\* position and the length of the range, negative bounds counted from the
\* end and both clipped to the axis
SliceStart(start, dim) == IF start < 0 THEN Max(start + dim, 0) ELSE Min(start, dim)
SliceLen(start, stop, dim) == Max(SliceStart(stop, dim) - SliceStart(start, dim), 0)

(***************************************************************************)
(* Pad.                                                                    *)
(***************************************************************************)
\* largest dimension of an array given to Pad
MaxPadDim == 2
\* largest pad amount
MaxPad == 1

PadValues == {0, 7}
PadData == {Iota(sh, 1) : sh \in SeqsOf(1 .. MaxPadDim, {1, 2})}
PadLists == SeqsOf(0 .. MaxPad, 1 .. 4)

PadFatal == [ok |-> FALSE, arr |-> <<>>]

\* Device::Copy(data, result.At(indices)): the view and data have the same
\* shape; every position of the view receives the element of data
CopyIntoView(result, starts, lens, data) ==
    IF lens # data.shape THEN PadFatal
    ELSE [ok |-> TRUE,
          arr |-> MakeArray(result.shape,
                     LAMBDA idx :
                        IF \A i \in DOMAIN idx : idx[i] >= starts[i] /\ idx[i] < starts[i] + lens[i]
                        THEN ElemAt(data, [i \in DOMAIN idx |-> idx[i] - starts[i]])
                        ELSE ElemAt(result, idx))]

\* variant: a Pad that reads the end pad of axis i at pads[i + 1]
PadOp_EndPadMisread(data, pads, value) ==
    LET n == Len(data.shape)
    IN  IF n * 2 # Len(pads) THEN PadFatal
        ELSE LET shape == [i \in 1 .. n |-> data.shape[i] + pads[i] + pads[i + 1]]
                 starts == [i \in 1 .. n |-> SliceStart(pads[i], shape[i])]
                 lens == [i \in 1 .. n |-> SliceLen(pads[i], pads[i] + data.shape[i], shape[i])]
             IN  CopyIntoView(Full(shape, value), starts, lens, data)

PadOp_RunImpl(data, pads, value) ==
    LET n == Len(data.shape)
    IN  IF n * 2 # Len(pads) THEN PadFatal
        ELSE LET shape == [i \in 1 .. n |-> data.shape[i] + pads[i] + pads[i + n]]
                 starts == [i \in 1 .. n |-> SliceStart(pads[i], shape[i])]
                 lens == [i \in 1 .. n |-> SliceLen(pads[i], pads[i] + data.shape[i], shape[i])]
             IN  CopyIntoView(Full(shape, value), starts, lens, data)

InitPad ==
    /\ MachineOff /\ FreshProcess
    /\ \E d \in PadData, p \in PadLists, v \in PadValues :
         call = <<[op |-> "Pad", data |-> d, pads |-> p, value |-> v]>>
    /\ ret = <<>>

RunPad ==
    /\ call # <<>> /\ call[1].op = "Pad" /\ ret = <<>>
    /\ ret' = <<PadOp_RunImpl(call[1].data, call[1].pads, call[1].value)>>
    /\ UNCHANGED <<vmvars, procvars, call>>

SpecPad == InitPad /\ [][RunPad]_vars

(***************************************************************************)
(* Split and Concat.                                                       *)
(***************************************************************************)
\* largest dimension of an array given to Split
MaxSplitDim == 4
\* largest number of outputs of a Split instruction
MaxOutputs == 3

RECURSIVE SumSeq(_)
SumSeq(s) == IF s = <<>> THEN 0 ELSE Head(s) + SumSeq(Tail(s))

\* where segment k starts when the segments have these lengths
SegStart(lens, k) == SumSeq(SubSeq(lens, 1, k - 1))

\* input.At(indices) with a Slice on one axis and full ranges elsewhere
SliceAxis(a, axis, start, len) ==
    MakeArray([a.shape EXCEPT ![axis + 1] = len],
              LAMBDA idx : ElemAt(a, [idx EXCEPT ![axis + 1] = @ + start]))

\* the helper Split: consecutive segments of the given lengths along axis
Split(input, lens, axis) ==
    [k \in 1 .. Len(lens) |->
        LET dim == input.shape[axis + 1]
            from == SegStart(lens, k)
        IN  SliceAxis(input, axis, SliceStart(from, dim), SliceLen(from, from + lens[k], dim))]

ConcatFatal == [ok |-> FALSE, arr |-> <<>>]

\* the helper Concat: joins arrays along axis; they agree on the other axes
Concat(arrs, axis) ==
    LET first == arrs[1].shape
        lens == [k \in 1 .. Len(arrs) |-> arrs[k].shape[axis + 1]]
        SegOf(p) == CHOOSE k \in 1 .. Len(arrs) :
                        SegStart(lens, k) <= p /\ p < SegStart(lens, k) + lens[k]
    IN  IF \E k \in 1 .. Len(arrs) :
              \/ Len(arrs[k].shape) # Len(first)
              \/ \E i \in DOMAIN first : i # axis + 1 /\ arrs[k].shape[i] # first[i]
        THEN ConcatFatal
        ELSE [ok |-> TRUE,
              arr |-> MakeArray([first EXCEPT ![axis + 1] = SumSeq(lens)],
                         LAMBDA idx :
                            LET k == SegOf(idx[axis + 1])
                            IN  ElemAt(arrs[k],
                                       [idx EXCEPT ![axis + 1] = @ - SegStart(lens, k)]))]

ConcatOp_RunImpl(arrs, axis) == Concat(arrs, axis)

SplitFatal == [ok |-> FALSE, outs |-> <<>>, joined |-> <<>>]

\* variant: a Split that divides without checking the remainder
SplitOp_NoRemainderCheck(input, split, axis, nout) ==
    IF split = <<>>
    THEN [ok |-> TRUE,
          outs |-> Split(input, [k \in 1 .. nout |-> input.shape[axis + 1] \div nout], axis),
          joined |-> <<>>]
    ELSE [ok |-> TRUE, outs |-> Split(input, split, axis), joined |-> <<>>]

\* split is the attribute (empty when not given), nout is outputs.size()
SplitOp_RunImpl(input, split, axis, nout) ==
    IF split = <<>>
    THEN LET dim == input.shape[axis + 1]
         IN  IF dim % nout # 0 THEN SplitFatal
             ELSE [ok |-> TRUE,
                   outs |-> Split(input, [k \in 1 .. nout |-> dim \div nout], axis),
                   joined |-> <<>>]
    ELSE [ok |-> TRUE, outs |-> Split(input, split, axis), joined |-> <<>>]

SplitData == {Iota(sh, 1) : sh \in SeqsOf(1 .. MaxSplitDim, {1, 2})}

\* the explicit segment lengths of a Split along an axis of size dim: they
\* add up to dim, one per output
SplitAttrs(dim) == {l \in SeqsOf(1 .. dim, 1 .. MaxOutputs) : SumSeq(l) = dim}

InitSplit ==
    /\ MachineOff /\ FreshProcess
    /\ \E a \in SplitData :
         \E axis \in 0 .. (Len(a.shape) - 1) :
            \/ \E n \in 1 .. MaxOutputs :
                  call = <<[op |-> "Split", input |-> a, axis |-> axis, split |-> <<>>, nout |-> n]>>
            \/ \E l \in SplitAttrs(a.shape[axis + 1]) :
                  call = <<[op |-> "Split", input |-> a, axis |-> axis, split |-> l, nout |-> Len(l)]>>
    /\ ret = <<>>

RunSplit ==
    /\ call # <<>> /\ call[1].op = "Split" /\ ret = <<>>
    /\ ret' = <<SplitOp_RunImpl(call[1].input, call[1].split, call[1].axis, call[1].nout)>>
    /\ UNCHANGED <<vmvars, procvars, call>>

\* Concat of the outputs of the Split, along the same axis
RunConcat ==
    /\ call # <<>> /\ call[1].op = "Split" /\ ret # <<>>
    /\ ret[1].ok /\ ret[1].joined = <<>>
    /\ ret' = <<[ret[1] EXCEPT !.joined = <<ConcatOp_RunImpl(ret[1].outs, call[1].axis)>>]>>
    /\ UNCHANGED <<vmvars, procvars, call>>

NextSplit == RunSplit \/ RunConcat

SpecSplit == InitSplit /\ [][NextSplit]_vars

(***************************************************************************)
(* MatMul and Gemm.                                                        *)
(***************************************************************************)
\* largest dimension of the arrays given to Gemm
MaxGemmDim == 2

Reverse(s) == [i \in 1 .. Len(s) |-> s[Len(s) + 1 - i]]

\* chainerx::Transpose without axes: the axes reversed
Transpose(a) == MakeArray(Reverse(a.shape), LAMBDA idx : ElemAt(a, Reverse(idx)))

\* chainerx::Reshape of an array to a shape of the same size: the elements
\* keep their row-major order
Reshape(a, shape) == [shape |-> shape, data |-> a.data]

ArrayFatal == [ok |-> FALSE, arr |-> <<>>]

\* chainerx::Dot of two matrices: a fatal error unless the last axis of a
\* is as long as the first axis of b
Dot(a, b) ==
    IF Len(a.shape) # 2 \/ Len(b.shape) # 2 THEN ArrayFatal
    ELSE IF a.shape[2] # b.shape[1] THEN ArrayFatal
    ELSE [ok |-> TRUE,
          arr |-> MakeArray(<<a.shape[1], b.shape[2]>>,
                     LAMBDA idx : SumSeq([k \in 1 .. a.shape[2] |->
                                             ElemAt(a, <<idx[1], k - 1>>) * ElemAt(b, <<k - 1, idx[2]>>)]))]

\* array * scalar
Scale(a, f) == [shape |-> a.shape, data |-> [k \in DOMAIN a.data |-> a.data[k] * f]]

\* a shape extended with leading 1s to n axes
PadTo(shape, n) ==
    [i \in 1 .. n |-> IF i <= n - Len(shape) THEN 1 ELSE shape[i - (n - Len(shape))]]

\* array + array with broadcasting: a fatal error unless, aligned at the
\* last axis, the dimensions are equal or one of them is 1
Add(a, b) ==
    LET n == Max(Len(a.shape), Len(b.shape))
        sa == PadTo(a.shape, n)
        sb == PadTo(b.shape, n)
        Pick(x, idx) ==
            ElemAt(x, [i \in 1 .. Len(x.shape) |->
                          IF x.shape[i] = 1 THEN 0 ELSE idx[i + n - Len(x.shape)]])
    IN  IF \E i \in 1 .. n : sa[i] # sb[i] /\ sa[i] # 1 /\ sb[i] # 1 THEN ArrayFatal
        ELSE [ok |-> TRUE,
              arr |-> MakeArray([i \in 1 .. n |-> IF sa[i] = 1 THEN sb[i] ELSE sa[i]],
                         LAMBDA idx : Pick(a, idx) + Pick(b, idx))]

MatMulOp_RunImpl(a, b) == Dot(a, b)

\* the reshape of an operand of more than two axes: last_dim is the product
\* of the dimensions after the first
GemmFlatten(x) ==
    IF Len(x.shape) > 2
    THEN Reshape(x, <<x.shape[1], Product(Tail(x.shape))>>)
    ELSE x

\* variant: a Gemm that always adds the bias term
GemmOp_BiasNotSkipped(a, b, c, alpha, beta, trans_a, trans_b) ==
    LET xa == GemmFlatten(IF trans_a THEN Transpose(a) ELSE a)
        xb == GemmFlatten(IF trans_b THEN Transpose(b) ELSE b)
        dot == Dot(xa, xb)
    IN  IF ~dot.ok THEN ArrayFatal
        ELSE LET r == IF alpha # 1 THEN Scale(dot.arr, alpha) ELSE dot.arr
             IN  Add(r, IF beta # 1 THEN Scale(c, beta) ELSE c)

GemmOp_RunImpl(a, b, c, alpha, beta, trans_a, trans_b) ==
    LET xa == GemmFlatten(IF trans_a THEN Transpose(a) ELSE a)
        xb == GemmFlatten(IF trans_b THEN Transpose(b) ELSE b)
        dot == Dot(xa, xb)
    IN  IF ~dot.ok THEN ArrayFatal
        ELSE LET r == IF alpha # 1 THEN Scale(dot.arr, alpha) ELSE dot.arr
             IN  IF beta = 0 THEN [ok |-> TRUE, arr |-> r]
                 ELSE Add(r, IF beta # 1 THEN Scale(c, beta) ELSE c)

GemmShapes == SeqsOf(1 .. MaxGemmDim, {2, 3})
GemmBiasShapes == SeqsOf(1 .. MaxGemmDim, {0, 1})
GemmFactors == {0, 1, 2}

GemmCall(a, b, c, alpha, beta, ta, tb) ==
    [op |-> "Gemm", a |-> a, b |-> b, c |-> c, alpha |-> alpha, beta |-> beta,
     trans_a |-> ta, trans_b |-> tb]

InitGemm ==
    /\ MachineOff /\ FreshProcess
    /\ \/ \E sa \in GemmShapes, sb \in GemmShapes, sc \in GemmBiasShapes,
              alpha \in GemmFactors \ {0}, beta \in GemmFactors, ta \in BOOLEAN, tb \in BOOLEAN :
            call = <<GemmCall(Iota(sa, 1), Iota(sb, 2), Iota(sc, 5), alpha, beta, ta, tb)>>
       \/ \E sc \in GemmBiasShapes :
            call = <<GemmCall(Iota(<<3, 4, 2, 2>>, 1), Iota(<<16, 2>>, 2), Iota(sc, 5),
                              1, 0, FALSE, FALSE)>>
    /\ ret = <<>>

RunGemm ==
    /\ call # <<>> /\ call[1].op = "Gemm" /\ ret = <<>>
    /\ ret' = <<GemmOp_RunImpl(call[1].a, call[1].b, call[1].c, call[1].alpha, call[1].beta,
                               call[1].trans_a, call[1].trans_b)>>
    /\ UNCHANGED <<vmvars, procvars, call>>

SpecGemm == InitGemm /\ [][RunGemm]_vars

(***************************************************************************)
(* ReluGrad.                                                               *)
(***************************************************************************)
\* largest dimension of an array given to ReluGrad
MaxReluDim == 2

\* Device::IfLessElseASSA(x1, x2, pos, neg, out): out receives, position by
\* position, the scalar pos where x1 < x2 and the element of neg elsewhere
IfLessElseASSA(x1, x2, pos, neg) ==
    MakeArray(x1.shape, LAMBDA idx : IF ElemAt(x1, idx) < x2 THEN pos ELSE ElemAt(neg, idx))

ReluGradOp_RunImpl(x, gy) == IfLessElseASSA(x, 0, 0, gy)

ReluShapes == SeqsOf(1 .. MaxReluDim, {1, 2})
\* the elements of x: below, at and above the threshold
ReluValues == {-1, 0, 1}
\* x of a shape: every array over ReluValues
ReluData(shape) == {[shape |-> shape, data |-> d] : d \in [1 .. Product(shape) -> ReluValues]}
\* gy of a shape: distinct elements, all positive or starting below zero
ReluGrads(shape) == {Iota(shape, 1), Iota(shape, -5)}

InitRelu ==
    /\ MachineOff /\ FreshProcess
    /\ \E s \in ReluShapes : \E x \in ReluData(s), gy \in ReluGrads(s) :
         call = <<[op |-> "ReluGrad", x |-> x, gy |-> gy]>>
    /\ ret = <<>>

RunRelu ==
    /\ call # <<>> /\ call[1].op = "ReluGrad" /\ ret = <<>>
    /\ ret' = <<ReluGradOp_RunImpl(call[1].x, call[1].gy)>>
    /\ UNCHANGED <<vmvars, procvars, call>>

SpecRelu == InitRelu /\ [][RunRelu]_vars

(***************************************************************************)
(* The best-effort kernels and their warnings.  A process pr is a record   *)
(* of warned (the WARN_ONCE call sites whose flag is set) and log (the     *)
(* warnings written so far).  A kernel returns ok (FALSE: fatal error),    *)
(* its output and the process after the call.                              *)
(***************************************************************************)
\* largest number of kernel calls of one process
MaxCalls == 3

\* WARN_ONCE(msg): the warning is written when the flag of this call site
\* is not set yet, and the flag is set
WARN_ONCE(pr, msg) ==
    IF msg \in pr.warned THEN pr
    ELSE [warned |-> pr.warned \cup {msg}, log |-> Append(pr.log, msg)]

KernelFatal(pr) == [ok |-> FALSE, out |-> <<>>, pr |-> pr]

\* Floor and Ceil.  The elements are counted in halves (3 is 1.5), small
\* enough for the cast to int64 to be exact.
\* x.AsType(kInt64).AsType(x.dtype()): the fraction is dropped, toward zero
TruncToInt(v) == IF v >= 0 THEN (v \div 2) * 2 ELSE -(((-v) \div 2) * 2)

FloorOp_RunImpl(pr, x) ==
    LET pr1 == WARN_ONCE(pr, "Floor is broken for large floats")
        out == [k \in DOMAIN x.data |-> TruncToInt(x.data[k])]
        negs == [k \in DOMAIN x.data |-> IF x.data[k] < 0 THEN 1 ELSE 0]
        floats == [k \in DOMAIN x.data |-> IF x.data[k] # out[k] THEN 1 ELSE 0]
    IN  [ok |-> TRUE,
         out |-> [shape |-> x.shape,
                  data |-> [k \in DOMAIN x.data |-> out[k] - 2 * negs[k] * floats[k]]],
         pr |-> pr1]

CeilOp_RunImpl(pr, x) ==
    LET pr1 == WARN_ONCE(pr, "Ceil is broken for large values")
        out == [k \in DOMAIN x.data |-> TruncToInt(x.data[k])]
        poses == [k \in DOMAIN x.data |-> IF x.data[k] > 0 THEN 1 ELSE 0]
        floats == [k \in DOMAIN x.data |-> IF x.data[k] # out[k] THEN 1 ELSE 0]
    IN  [ok |-> TRUE,
         out |-> [shape |-> x.shape,
                  data |-> [k \in DOMAIN x.data |-> out[k] + 2 * poses[k] * floats[k]]],
         pr |-> pr1]

\* GreaterEqual.  An element is a number or NaN.
Num(v) == [nan |-> FALSE, v |-> v]
NaN == [nan |-> TRUE, v |-> 0]
\* chainerx::Greater on elements: false when either side is NaN
Greater(a, b) == ~a.nan /\ ~b.nan /\ a.v > b.v

GreaterEqualOp_RunImpl(pr, a, b) ==
    [ok |-> TRUE,
     out |-> [shape |-> a.shape,
              data |-> [k \in DOMAIN a.data |-> ~Greater(b.data[k], a.data[k])]],
     pr |-> pr]

\* Max.  The arrays carry their dtype.
Typed(a, dtype) == [shape |-> a.shape, data |-> a.data, dtype |-> dtype]

ElementwiseMax(pr, a, b) ==
    LET an == GetTotalSize(a)
        bn == GetTotalSize(b)
    IN  IF a.dtype # b.dtype THEN KernelFatal(pr)
        ELSE IF an = 1
        THEN [ok |-> TRUE, pr |-> pr,
              out |-> [b EXCEPT !.data = [k \in DOMAIN b.data |-> Max(a.data[1], b.data[k])]]]
        ELSE IF bn = 1
        THEN [ok |-> TRUE, pr |-> pr,
              out |-> [a EXCEPT !.data = [k \in DOMAIN a.data |-> Max(a.data[k], b.data[1])]]]
        ELSE IF an # bn THEN KernelFatal(pr)
        ELSE [ok |-> TRUE, pr |-> WARN_ONCE(pr, "Slow element-wise Max"),
              out |-> [a EXCEPT !.data = [k \in DOMAIN a.data |-> Max(a.data[k], b.data[k])]]]

\* the fold of MaxOp::RunImpl over inputs[i .. ], result being the maximum
\* so far
RECURSIVE MaxFold(_, _, _, _)
MaxFold(pr, result, ins, i) ==
    IF i > Len(ins) THEN [ok |-> TRUE, out |-> result, pr |-> pr]
    ELSE LET m == ElementwiseMax(pr, result, ins[i])
         IN  IF ~m.ok THEN m ELSE MaxFold(m.pr, m.out, ins, i + 1)

MaxOp_RunImpl(pr, ins) ==
    IF Len(ins) = 0 THEN KernelFatal(pr) ELSE MaxFold(pr, ins[1], ins, 2)

\* LSTM, by the shapes of x, w and r (b, initial_h, initial_c and p absent):
\* the checks on the operands, the warning and the shapes of the three
\* results.  The values of the results are not part of this model.
LSTMOp_RunImpl(pr, x, w, r, sequence_lens) ==
    IF w[1] # 1 THEN KernelFatal(pr)
    ELSE LET pr1 == IF sequence_lens THEN WARN_ONCE(pr, "LSTM with sequence_lens is not supported yet")
                    ELSE pr
             seq_length == x[1]
             batch_size == x[2]
             hidden_size == w[2] \div 4
         IN  IF \/ w[2] % 4 # 0
                \/ 4 * hidden_size # r[2]
                \/ r[1] # 1                                 \* Squeeze(r, {0})
                \/ (seq_length > 0 /\ x[3] # w[3])          \* Dot(cur_x, wt)
                \/ (seq_length > 0 /\ hidden_size # r[3])   \* Dot(h, rt)
             THEN KernelFatal(pr1)
             ELSE [ok |-> TRUE, pr |-> pr1,
                   out |-> << <<seq_length, batch_size, hidden_size>>,
                              <<1, batch_size, hidden_size>>,
                              <<1, batch_size, hidden_size>> >>]

\* the arguments of the calls
RoundInputs == {[shape |-> <<2>>, data |-> <<-3, 3>>], ScalarArray(2)}
CompareInputs == {<<Num(1), Num(2)>>, <<NaN, Num(1)>>, <<Num(2), NaN>>}
MaxInputs ==
    LET s == Typed(ScalarArray(2), "float32")
        v == Typed(Iota(<<2>>, 1), "float32")
        u == Typed(Iota(<<2>>, 2), "float32")
        m == Typed(Iota(<<2, 1>>, 0), "float32")
        l == Typed(Iota(<<3>>, 1), "float32")
        i == Typed(Iota(<<2>>, 1), "int64")
    IN  {<<v>>, <<s, v>>, <<v, s>>, <<v, u>>, <<v, m>>, <<v, u, m>>, <<v, l>>, <<v, i>>}
LSTMInputs ==
    {[x |-> <<1, 1, 2>>, w |-> <<nd, w1, 2>>, r |-> <<1, 4, 1>>, sequence_lens |-> sl] :
        nd \in {1, 2}, w1 \in {4, 6}, sl \in BOOLEAN}

ThisProcess == [warned |-> warned, log |-> log]

\* the process makes another call while it has not aborted
CanCall == Len(call) < MaxCalls /\ \A i \in DOMAIN ret : ret[i].ok

\* the call c returned r: c and r join the history, with the warnings this
\* call wrote
Returned(c, r) ==
    /\ call' = Append(call, c)
    /\ ret' = Append(ret, [ok |-> r.ok, out |-> r.out,
                           emitted |-> SubSeq(r.pr.log, Len(log) + 1, Len(r.pr.log))])
    /\ warned' = r.pr.warned
    /\ log' = r.pr.log
    /\ UNCHANGED vmvars

InitWarn == MachineOff /\ FreshProcess /\ NoCall

CallFloor ==
    /\ CanCall
    /\ \E x \in RoundInputs :
         Returned([op |-> "Floor", x |-> x], FloorOp_RunImpl(ThisProcess, x))

CallCeil ==
    /\ CanCall
    /\ \E x \in RoundInputs :
         Returned([op |-> "Ceil", x |-> x], CeilOp_RunImpl(ThisProcess, x))

CallGreaterEqual ==
    /\ CanCall
    /\ \E ab \in CompareInputs :
         LET a == ScalarArray(ab[1])
             b == ScalarArray(ab[2])
         IN  Returned([op |-> "GreaterEqual", a |-> a, b |-> b],
                      GreaterEqualOp_RunImpl(ThisProcess, a, b))

CallMax ==
    /\ CanCall
    /\ \E ins \in MaxInputs :
         Returned([op |-> "Max", inputs |-> ins], MaxOp_RunImpl(ThisProcess, ins))

CallLSTM ==
    /\ CanCall
    /\ \E c \in LSTMInputs :
         Returned([op |-> "LSTM", x |-> c.x, w |-> c.w, r |-> c.r,
                   sequence_lens |-> c.sequence_lens],
                  LSTMOp_RunImpl(ThisProcess, c.x, c.w, c.r, c.sequence_lens))

NextWarn == CallFloor \/ CallCeil \/ CallGreaterEqual \/ CallMax \/ CallLSTM

SpecWarn == InitWarn /\ [][NextWarn]_vars

(***************************************************************************)
(* Squeeze.                                                                *)
(***************************************************************************)
\* largest number of axes of an array given to Squeeze
MaxSqueezeRank == 3
\* largest dimension of such an array
MaxSqueezeDim == 2

\* std::find(axes.begin(), axes.end(), i) != axes.end() for the position i
\* (0-based, a size_t): an entry of axes is compared as an unsigned
\* number, so a negative entry equals no position
AxisListed(axes, i) == \E k \in DOMAIN axes : axes[k] >= 0 /\ axes[k] = i

\* the loop of SqueezeOp::RunImpl from position i on: the dimensions pushed
\* to shape
RECURSIVE SqueezeKept(_, _, _)
SqueezeKept(dshape, axes, i) ==
    IF i >= Len(dshape) THEN <<>>
    ELSE (IF AxisListed(axes, i) THEN <<>> ELSE <<dshape[i + 1]>>)
            \o SqueezeKept(dshape, axes, i + 1)

\* the same loop with the positions counted from one
SqueezeOp_OneBasedAxes(data, axes, mode) ==
    LET one == [k \in DOMAIN axes |-> axes[k] - 1]
    IN  IF \E i \in 0 .. (Len(data.shape) - 1) : AxisListed(one, i) /\ data.shape[i + 1] # 1
        THEN ArrayFatal
        ELSE LET r == chainerx_Reshape(data.shape, SqueezeKept(data.shape, one, 0), mode)
             IN  IF r.ok THEN [ok |-> TRUE, arr |-> Reshape(data, r.shape)] ELSE ArrayFatal

SqueezeOp_RunImpl(data, axes, mode) ==
    IF \E i \in 0 .. (Len(data.shape) - 1) : AxisListed(axes, i) /\ data.shape[i + 1] # 1
    THEN ArrayFatal
    ELSE LET r == chainerx_Reshape(data.shape, SqueezeKept(data.shape, axes, 0), mode)
         IN  IF r.ok THEN [ok |-> TRUE, arr |-> Reshape(data, r.shape)] ELSE ArrayFatal

SqueezeShapes == SeqsOf(1 .. MaxSqueezeDim, 0 .. MaxSqueezeRank)
\* the attribute axes: positions of the array, positions beyond its last
\* axis, and a negative entry
SqueezeAxes == SeqsOf(-1 .. MaxSqueezeRank, 0 .. 2)

InitSqueeze ==
    /\ MachineOff /\ FreshProcess
    /\ \E s \in SqueezeShapes, axes \in SqueezeAxes, mode \in EngineModes :
         call = <<[op |-> "Squeeze", data |-> Iota(s, 1), axes |-> axes, mode |-> mode]>>
    /\ ret = <<>>

RunSqueeze ==
    /\ call # <<>> /\ call[1].op = "Squeeze" /\ ret = <<>>
    /\ ret' = <<SqueezeOp_RunImpl(call[1].data, call[1].axes, call[1].mode)>>
    /\ UNCHANGED <<vmvars, procvars, call>>

SpecSqueeze == InitSqueeze /\ [][RunSqueeze]_vars

(***************************************************************************)
(* Properties of the machine (specification Spec).                         *)
(***************************************************************************)
IsJump(step) == step.ins.op \in {"JmpTrue", "JmpFalse"}

\* the step was a jump that ran on a 0-d condition
RanJump(step) == IsJump(step) /\ step.ok /\ step.slot # <<>> /\ HasScalar(step.slot[1])

CondOf(step) == step.slot[1].data[1] # 0

TookJmpTrue(step) == step.ins.op = "JmpTrue" /\ RanJump(step) /\ CondOf(step)

\* a step of the Dispatcher that runs an instruction
RunStep == status = "running" /\ phase = "fetch" /\ (phase' = "advance" \/ status' = "aborted")

\* C1: after a JmpTrue(target = t) executed on a true 0-d condition, the
\* run goes on (it neither ends nor fails at the jump), the Dispatcher's
\* increment leads to pc = t, and the instruction executed next, with none
\* in between, is the one at index t.
C1_JmpTrueResumesAtTarget ==
    /\ (last # <<>> /\ TookJmpTrue(last[1])) =>
          /\ status = "running"
          /\ phase = "advance" => pc + 1 = last[1].ins.target
          /\ phase = "fetch" => pc = last[1].ins.target
    /\ (prev # <<>> /\ TookJmpTrue(prev[1])) => last[1].idx = prev[1].ins.target

\* C1, its case: a taken JmpTrue skipped at least one instruction and the
\* instruction at its target was executed next.
C1_Witness ==
    /\ prev # <<>> /\ TookJmpTrue(prev[1])
    /\ prev[1].ins.target >= prev[1].idx + 2
    /\ last[1].idx = prev[1].ins.target
    /\ prog[prev[1].idx + 1] = <<>>

\* C2: an access to a variable id that is not live aborts the run: Free of
\* an absent id, and Out, JmpTrue or JmpFalse whose input is absent, fail (so
\* a second Free of the same id right after the first fails); Free of a
\* live id succeeds and leaves the id absent.
C2_AccessToDeadVarIsFatal ==
    last # <<>> =>
        LET step == last[1]
        IN  /\ (step.ins.op \in {"Free", "Out", "JmpTrue", "JmpFalse"} /\ step.slot = <<>>) =>
                  (~step.ok /\ status = "aborted")
            /\ (step.ins.op = "Free" /\ step.slot # <<>>) =>
                  (step.ok /\ status # "aborted" /\ regs[step.ins.v] = <<>>)
            /\ (prev # <<>> /\ prev[1].ins.op = "Free" /\ step.ins.op = "Free"
                   /\ prev[1].ins.v = step.ins.v) => status = "aborted"
            /\ status = "aborted" => ~step.ok

\* C2, its case: a Free of a live id succeeded and the Free of the same id
\* that followed aborted the run.
C2_Witness ==
    /\ prev # <<>> /\ prev[1].ins.op = "Free" /\ prev[1].ok /\ prev[1].slot # <<>>
    /\ last[1].ins.op = "Free" /\ last[1].ins.v = prev[1].ins.v
    /\ status = "aborted"

\* C8, the frame of a step: an Out changes no register and no input
\* binding and binds its name to the value of its source register; an In
\* changes no input and no output binding and no register but its own
\* output slot, which receives the input's value.
C8_Frame ==
    (RunStep /\ last'[1].ok) =>
        LET ins == last'[1].ins
        IN  /\ ins.op = "Out" =>
                  /\ regs' = regs
                  /\ inputs' = inputs
                  /\ outputs' = [outputs EXCEPT ![ins.name] = regs[ins.v]]
                  /\ regs'[ins.v] # <<>>
            /\ ins.op = "In" =>
                  /\ inputs' = inputs
                  /\ outputs' = outputs
                  /\ regs' = [regs EXCEPT ![ins.v] = <<inputs[ins.name]>>]

\* C8: every Out overwrites the binding of its name, so that when the
\* program terminates normally each output name is bound to the value the
\* last executed Out passed for it; executing Out leaves every register
\* unchanged (its source register still holds the value), and executing In
\* consumes nothing: the input bindings and every register but In's own
\* output slot are unchanged.
C8_LastOutWins ==
    /\ [](outputs = passed)
    /\ [][C8_Frame]_vars

\* C8, its case: two Outs for the same name passed different values, the
\* program terminated, the name is bound to the second value and both
\* source registers still hold their values.
C8_Witness ==
    /\ status = "done"
    /\ prev # <<>> /\ prev[1].ins.op = "Out" /\ last[1].ins.op = "Out"
    /\ prev[1].ins.name = last[1].ins.name
    /\ prev[1].slot # last[1].slot
    /\ outputs[last[1].ins.name] = last[1].slot
    /\ regs[prev[1].ins.v] = prev[1].slot /\ regs[last[1].ins.v] = last[1].slot

\* C9 as stated: in every state of a running program, the states right
\* after a jump kernel has set the pc to target - 1 included, 0 <= pc <
\* number of instructions; the run has completed exactly when pc has
\* passed the last index.
C9_PcAlwaysValid ==
    /\ status = "running" => (0 <= pc /\ pc < ProgLen)
    /\ status = "done" <=> pc >= ProgLen

\* C9 as amended: whenever the Dispatcher fetches an instruction of a
\* running program, 0 <= pc < number of instructions; right after a taken
\* jump pc is target - 1, which is -1 for target 0 and a valid index
\* otherwise, and right after any other kernel pc is the index of the
\* instruction; the run has completed exactly when pc has passed the last
\* index.
C9_PcValidAtFetch ==
    /\ (status = "running" /\ phase = "fetch") => (0 <= pc /\ pc < ProgLen)
    /\ (status = "running" /\ phase = "advance") =>
          LET step == last[1]
              taken == RanJump(step) /\ (CondOf(step) <=> step.ins.op = "JmpTrue")
          IN  /\ taken => pc = step.ins.target - 1
              /\ ~taken => pc = step.idx
              /\ -1 <= pc /\ pc < ProgLen
              /\ pc = -1 <=> (taken /\ step.ins.target = 0)
    /\ status = "done" <=> pc >= ProgLen

\* C9, its case: a jump to target 0 was taken and the Dispatcher has not
\* incremented yet.
C9_Witness ==
    /\ status = "running" /\ phase = "advance"
    /\ RanJump(last[1]) /\ last[1].ins.target = 0
    /\ pc = -1

\* C10, the frame of a step: a jump changes no register, no input binding
\* and no output binding.
C10_Frame ==
    (RunStep /\ IsJump(last'[1]) /\ last'[1].ok) =>
        (regs' = regs /\ inputs' = inputs /\ outputs' = outputs)

\* C10, the state parts: a JmpTrue on a false and a JmpFalse on a true
\* condition leave the pc alone and the instruction executed next is the
\* one at index i + 1; a JmpFalse on a false condition continues at its
\* target; and for the condition of the jump just executed, whatever the
\* target, exactly one of the two kernels overrides the pc.
C10_JumpOutcome ==
    /\ (last # <<>> /\ RanJump(last[1]) /\ phase = "advance") =>
          LET step == last[1]
          IN  /\ (step.ins.op = "JmpTrue" /\ ~CondOf(step)) => pc = step.idx
              /\ (step.ins.op = "JmpFalse" /\ CondOf(step)) => pc = step.idx
              /\ (step.ins.op = "JmpFalse" /\ ~CondOf(step)) => pc = step.ins.target - 1
              /\ \A t \in Targets :
                    t - 1 # pc =>
                       ((JmpTrueOp_RunImpl(St, t, step.slot[1]) = set_pc(St, t - 1)
                           /\ JmpFalseOp_RunImpl(St, t, step.slot[1]) = St)
                        \/ (JmpFalseOp_RunImpl(St, t, step.slot[1]) = set_pc(St, t - 1)
                           /\ JmpTrueOp_RunImpl(St, t, step.slot[1]) = St))
    /\ (prev # <<>> /\ RanJump(prev[1])) =>
          LET step == prev[1]
          IN  /\ (step.ins.op = "JmpTrue" /\ ~CondOf(step)) => last[1].idx = step.idx + 1
              /\ (step.ins.op = "JmpFalse" /\ CondOf(step)) => last[1].idx = step.idx + 1
              /\ (step.ins.op = "JmpFalse" /\ ~CondOf(step)) => last[1].idx = step.ins.target

\* C10: a JmpTrue on a false condition and a JmpFalse on a true condition
\* fall through to index i + 1, a JmpFalse on a false condition continues
\* at its target, exactly one of JmpTrue and JmpFalse jumps on a given
\* condition, and a jump changes nothing but the program counter.
C10_JumpsFallThroughAndFrame ==
    /\ []C10_JumpOutcome
    /\ [][C10_Frame]_vars

\* C10, its case: a JmpFalse on a true condition fell through to the next
\* instruction although its target was elsewhere.
C10_Witness ==
    /\ prev # <<>> /\ RanJump(prev[1])
    /\ prev[1].ins.op = "JmpFalse" /\ CondOf(prev[1])
    /\ prev[1].ins.target # prev[1].idx + 1
    /\ last[1].idx = prev[1].idx + 1

(***************************************************************************)
(* Properties of the kernels.                                              *)
(***************************************************************************)
Called(op) == call # <<>> /\ call[1].op = op /\ ret # <<>>

\* exactly one entry of s is -1 and the others are positive
OneMinusOne(s) ==
    /\ Cardinality({i \in DOMAIN s : s[i] = -1}) = 1
    /\ \A i \in DOMAIN s : s[i] = -1 \/ s[i] > 0

\* the product of the other dimensions divides the size of the data
Divides(dshape, s) ==
    NonNegProduct(s) # 0 /\ Product(dshape) % NonNegProduct(s) = 0

\* s with every -1 replaced by total_size / product(other dims)
Resolved(dshape, s) ==
    [i \in DOMAIN s |-> IF s[i] = -1 THEN Product(dshape) \div NonNegProduct(s) ELSE s[i]]

\* C3 (SpecReshape): for a target shape with exactly one -1 and otherwise
\* positive dimensions whose product divides total_size(data), the case of
\* the product being equal to total_size(data) included, Reshape hands the
\* array engine the shape with the -1 replaced by total_size(data) /
\* product(other dims), a shape of as many elements as data.
C3_ReshapeResolvesMinusOne ==
    (Called("Reshape") /\ OneMinusOne(call[1].s) /\ Divides(call[1].dshape, call[1].s)) =>
        /\ ret[1].checked
        /\ ret[1].passed = Resolved(call[1].dshape, call[1].s)
        /\ Product(ret[1].passed) = Product(call[1].dshape)

\* C4 (SpecReshape): Reshape fails, producing no output, whenever the
\* product of the dimensions other than -1 does not divide
\* total_size(data), and whenever the target shape holds two or more -1.
C4_ReshapeRejects ==
    (Called("Reshape")
       /\ (~Divides(call[1].dshape, call[1].s)
             \/ Cardinality({i \in DOMAIN call[1].s : call[1].s[i] = -1}) >= 2)) =>
        ~ret[1].ok

\* C5 (SpecPad): for pads of length 2 * ndim, Pad returns an array whose
\* size along axis i is data.shape[i] + pads[i] + pads[i + ndim], whose
\* block at offset pads[i] on every axis is data, element for element, and
\* whose other positions all hold the constant value; pads of any other
\* length are a fatal error.
C5_PadContract ==
    Called("Pad") =>
        LET data == call[1].data
            pads == call[1].pads
            n == Len(data.shape)
            out == ret[1].arr
        IN  IF Len(pads) # 2 * n THEN ~ret[1].ok
            ELSE /\ ret[1].ok
                 /\ Len(out.shape) = n
                 /\ \A i \in 1 .. n : out.shape[i] = data.shape[i] + pads[i] + pads[i + n]
                 /\ \A j \in Indices(data.shape) :
                       ElemAt(out, [i \in 1 .. n |-> j[i] + pads[i]]) = ElemAt(data, j)
                 /\ \A k \in Indices(out.shape) :
                       (\E i \in 1 .. n : k[i] < pads[i] \/ k[i] >= pads[i] + data.shape[i]) =>
                          ElemAt(out, k) = call[1].value

\* C5, its case: a matrix padded before its first axis and after its
\* second one only.
C5_Witness ==
    /\ Called("Pad") /\ ret[1].ok
    /\ call[1].pads = <<1, 0, 0, 1>>
    /\ call[1].data.shape = <<2, 2>>
    /\ ret[1].arr.shape = <<3, 3>>

\* C6 (SpecSplit): Split without lengths fails exactly when the axis size
\* is not divisible by the output count and otherwise returns that many
\* segments of dim / count; with lengths it returns one segment per
\* length; and Concat, along the same axis, of what Split returned is the
\* original array.
C6_ConcatOfSplit ==
    Called("Split") =>
        LET c == call[1]
            dim == c.input.shape[c.axis + 1]
            r == ret[1]
        IN  /\ r.ok <=> (c.split # <<>> \/ dim % c.nout = 0)
            /\ r.ok =>
                  /\ Len(r.outs) = c.nout
                  /\ \A k \in 1 .. c.nout :
                        r.outs[k].shape =
                           [c.input.shape EXCEPT ![c.axis + 1] =
                               IF c.split = <<>> THEN dim \div c.nout ELSE c.split[k]]
            /\ r.joined # <<>> => r.joined[1] = [ok |-> TRUE, arr |-> c.input]

\* C6, its case: a matrix split along its second axis into several equal
\* segments, no lengths given, and joined again.
C6_Witness ==
    /\ Called("Split") /\ ret[1].joined # <<>>
    /\ call[1].split = <<>> /\ call[1].nout = 2 /\ call[1].axis = 1
    /\ call[1].input.shape = <<2, 4>>
    /\ ret[1].joined[1].arr = call[1].input

\* an operand of Gemm as it enters the product: transposed when asked, and
\* with more than two axes reshaped to (shape[0], all the other dimensions
\* multiplied)
GemmOperand(x, trans) ==
    LET t == IF trans THEN Transpose(x) ELSE x
    IN  IF Len(t.shape) > 2
        THEN [shape |-> <<t.shape[1], Product(t.shape) \div t.shape[1]>>, data |-> t.data]
        ELSE t

\* C7 (SpecGemm): with alpha = 1 and beta = 0 Gemm returns the Dot of its
\* two operands, whatever C is: no bias, no scaling; an operand of more
\* than two axes enters as (shape[0], product of the rest); for matrices
\* that are not transposed it is MatMul(A, B); and A of shape (3,4,2,2)
\* with B of shape (16,2) gives a result of shape (3,2).
C7_GemmIsDot ==
    (Called("Gemm") /\ call[1].alpha = 1 /\ call[1].beta = 0) =>
        LET c == call[1]
        IN  /\ ret[1] = Dot(GemmOperand(c.a, c.trans_a), GemmOperand(c.b, c.trans_b))
            /\ (~c.trans_a /\ ~c.trans_b /\ Len(c.a.shape) = 2 /\ Len(c.b.shape) = 2) =>
                  ret[1] = MatMulOp_RunImpl(c.a, c.b)
            /\ (~c.trans_a /\ ~c.trans_b /\ c.a.shape = <<3, 4, 2, 2>> /\ c.b.shape = <<16, 2>>) =>
                  (ret[1].ok /\ ret[1].arr.shape = <<3, 2>>)

\* C7, its case: the (3,4,2,2) by (16,2) product, with a bias that could
\* not be added to the result.
C7_Witness ==
    /\ Called("Gemm") /\ call[1].alpha = 1 /\ call[1].beta = 0
    /\ call[1].a.shape = <<3, 4, 2, 2>> /\ call[1].b.shape = <<16, 2>>
    /\ call[1].c.shape = <<1>>
    /\ ret[1].ok /\ ret[1].arr.shape = <<3, 2>>

\* C11 (SpecRelu): for x and gy of the same shape ReluGrad returns an array
\* of that shape whose element is gy's where x's element is strictly
\* greater than 0, and 0 everywhere else, also where x is exactly 0.
C11_ReluGradSelectsPositive ==
    Called("ReluGrad") =>
        LET x == call[1].x
            gy == call[1].gy
        IN  /\ ret[1].shape = x.shape
            /\ \A idx \in Indices(x.shape) :
                 ElemAt(ret[1], idx) = IF ElemAt(x, idx) > 0 THEN ElemAt(gy, idx) ELSE 0

(***************************************************************************)
(* Properties of the warnings (specification SpecWarn).                    *)
(***************************************************************************)
\* does the fold of Max over ins[i .. ], with a result of n elements so
\* far, reach the element-by-element loop?
RECURSIVE ReachesSlowMax(_, _, _)
ReachesSlowMax(n, ins, i) ==
    IF i > Len(ins) THEN FALSE
    ELSE LET bn == GetTotalSize(ins[i])
         IN  IF ins[i].dtype # ins[1].dtype THEN FALSE
             ELSE IF n = 1 THEN ReachesSlowMax(bn, ins, i + 1)
             ELSE IF bn = 1 THEN ReachesSlowMax(n, ins, i + 1)
             ELSE n = bn

\* the operands of an LSTM call pass its checks
LSTMWellFormed(c) ==
    /\ c.w[1] = 1 /\ c.r[1] = 1
    /\ c.w[2] % 4 = 0 /\ c.r[2] = c.w[2]
    /\ c.x[3] = c.w[3] /\ c.r[3] = c.w[2] \div 4

\* the best-effort code path the call c hits, if any
PathOf(c) ==
    CASE c.op \in {"Floor", "Ceil", "GreaterEqual"} -> c.op
      [] c.op = "LSTM" -> IF c.sequence_lens /\ c.w[1] = 1 THEN "LSTM" ELSE "none"
      [] c.op = "Max" ->
            IF ReachesSlowMax(GetTotalSize(c.inputs[1]), c.inputs, 2) THEN "Max" ELSE "none"

\* the i-th call of the process is the first one to hit its path
FirstHit(i) == \A j \in 1 .. (i - 1) : PathOf(call[j]) # PathOf(call[i])

\* C12 (SpecWarn): over any sequence of kernel calls of one process, each
\* best-effort code path (Floor, Ceil, GreaterEqual, LSTM given
\* sequence_lens, the slow fallback of elementwise Max) writes its warning
\* on the first call that hits it and never on a later one, and none of
\* these calls is aborted by it (an LSTM call only by a check its operands
\* fail).
C12_WarnsOncePerPath ==
    \A i \in DOMAIN ret :
        PathOf(call[i]) # "none" =>
            /\ Len(ret[i].emitted) = (IF FirstHit(i) THEN 1 ELSE 0)
            /\ (call[i].op = "LSTM" => LSTMWellFormed(call[i])) => ret[i].ok

(***************************************************************************)
(* Properties of Squeeze (specification SpecSqueeze).                      *)
(***************************************************************************)
\* the axes of an array of this shape that the list names: an entry that
\* is no position of the array (negative, or beyond the last axis) names
\* no axis
ListedAxes(dshape, axes) == {p \in 0 .. (Len(dshape) - 1) : \E k \in DOMAIN axes : axes[k] = p}

\* the shape without its listed axes, the others in their order: the j-th
\* dimension is that of the unlisted axis with j - 1 unlisted axes before it
WithoutListed(dshape, axes) ==
    LET kept == (0 .. (Len(dshape) - 1)) \ ListedAxes(dshape, axes)
        nth(j) == CHOOSE p \in kept : Cardinality({q \in kept : q < p}) = j - 1
    IN  [j \in 1 .. Cardinality(kept) |-> dshape[nth(j) + 1]]

====
